---- MODULE Spec2Model ----
(***************************************************************************)
(* RotaInteligente: the route-analysis job client (App.handleAnalyze and   *)
(* services/api pollRoute) and the MapLibre layer synchronisation of       *)
(* MapView, as state machines.                                             *)
(***************************************************************************)
EXTENDS Integers, Sequences, FiniteSets, TLC

\* ------------------------------------------------------------------ bounds
MaxJobs == 2
MaxAttempts == 3
MaxSegs == 2
MaxPendingStyles == 2
MaxQueue == 7
MaxDuration == 2
MaxElapsed == 61
MaxNavRuns == 2

VARIABLES
    \* App
    loading, error, result, job,
    \* MapView: React state, the map surface, the refs
    theme, style, styleLoaded, onceStyledata, sources, layers, mapError,
    routeGeomRef, samplesRef, tollPointsRef, accidentPointsRef,
    congestionSegmentsRef, trafficLightPointsRef,
    \* history: setStyle calls since the last style-ready, what that one ran,
    \* and the congestion segments the render before the last one was given
    pendingStyles, lastReady, prevSegs,
    \* MapView popups: the two popup refs, the canvas cursor, the points-list
    \* flag, and what the pointer is over
    clickPopupRef, hoverPopupRef, cursor, showPointsList, mouseOver,
    \* TrafficLightPopup: props, React state, the interval ref, and the
    \* intervals running in the browser, each with its closure
    signal, visible, phase, countdown, intervalRef, intervals,
    \* mobile App: navigation state and the position subscriptions
    navigationMode, userLocation, navRun, watches

jobVars == <<loading, error, result, job>>
refVars == <<routeGeomRef, samplesRef, tollPointsRef, accidentPointsRef,
             congestionSegmentsRef, trafficLightPointsRef>>
surfaceVars == <<styleLoaded, onceStyledata, sources, layers, mapError,
                 pendingStyles, lastReady, prevSegs>>
popupVars == <<clickPopupRef, hoverPopupRef, cursor, showPointsList, mouseOver>>
lightVars == <<signal, visible, phase, countdown, intervalRef, intervals>>
navVars == <<navigationMode, userLocation, navRun, watches>>
uiVars == <<popupVars, lightVars, navVars>>
mapVars == <<theme, style, surfaceVars, refVars, uiVars>>
vars == <<jobVars, mapVars>>

JobIds == 1..MaxJobs

\* ------------------------------------------------------- RouteResult values
Statuses == {"pending", "processing", "completed", "failed"}

\* The optional payload of a RouteResult: how many elements each field holds
\* (0: the field is absent or empty).
Fields == {"route_geometry", "congestion_segments", "samples", "toll_points",
           "accident_points", "traffic_light_points"}
PointFields == {"samples", "toll_points", "accident_points", "traffic_light_points"}

Payload(g, c, pts) ==
    [f \in Fields |-> IF f = "route_geometry" THEN g
                      ELSE IF f = "congestion_segments" THEN c
                      ELSE IF f \in pts THEN 1 ELSE 0]

NoPayload == Payload(0, 0, {})
FullPayload == Payload(1, MaxSegs, PointFields)

\* The payloads the backend is taken to answer with: with a geometry, every
\* segment count with no or every point channel, and one point channel alone;
\* without a geometry, nothing or everything else.
Payloads ==
    {Payload(1, c, pts) : c \in 0..MaxSegs, pts \in {{}, PointFields}}
        \cup {Payload(1, 0, {"samples"}), Payload(1, 0, {"toll_points"})}
        \cup {NoPayload, Payload(0, MaxSegs, PointFields)}

\* useState<RouteResult | null>(null): null is the record of generation 0.
\* malformed: the fields in which an element lacks its coordinates.
NoResult == [route_id |-> 0, seq |-> 0, status |-> "none", hasError |-> FALSE,
             data |-> NoPayload, malformed |-> {}]

\* useState<string | null>(null): null is the record of job 0.
NoError == [job |-> 0, kind |-> "null"]

\* The body of GET /routes/{route_id}: seq numbers the fetch that produced it.
Response(j, n, st, he, d) ==
    [route_id |-> j, seq |-> n, status |-> st, hasError |-> he, data |-> d,
     malformed |-> {}]

Responses(j, n, payloads) ==
    {Response(j, n, st, FALSE, NoPayload) : st \in Statuses \ {"completed"}}
        \cup {Response(j, n, "failed", TRUE, NoPayload)}
        \cup {Response(j, n, "completed", FALSE, d) : d \in payloads}

\* ------------------------------------------------------------- pollRoute
\* Mutant: the loop is left on 'completed' alone.
IsFinal_CompletedOnly(status) == status = "completed"

\* if (result.status === 'completed' || result.status === 'failed') return result
IsFinal(status) == status \in {"completed", "failed"}

\* Mutant: the loop runs while i <= maxAttempts.
LoopContinues_OffByOne(i, maxAttempts) == i <= maxAttempts

\* for (let i = 0; i < maxAttempts; i++)
LoopContinues(i, maxAttempts) == i < maxAttempts

\* What identifies a RouteResult: the job and the fetch that produced it.
Ident(r) == [route_id |-> r.route_id, seq |-> r.seq, status |-> r.status]

\* One handleAnalyze call. pc, i and maxAttempts are the call's position and
\* pollRoute's locals; the rest is its history: the fetches issued, how many
\* were answered pending or processing, the status last answered, what
\* pollRoute returned, how the call ended, the setResult / setError calls it
\* made, where it stood when a later call began ("no": none began), and the
\* setResult / setError calls it made after that.
NewJob == [pc |-> "idle", i |-> 0, maxAttempts |-> 0, fetches |-> 0, nonFinal |-> 0,
           last |-> "none", returned |-> Ident(NoResult), outcome |-> "none",
           reports |-> 0, abandoned |-> "no", lateReports |-> 0]

Active(jr) == jr.pc \in {"submitting", "fetching", "sleeping"}

\* Mutant: setError(routeResult.error), without the fallback text.
Deliver_NoFallback(routeResult) ==
    IF routeResult.status = "failed"
    THEN [error |-> IF routeResult.hasError
                    THEN [job |-> routeResult.route_id, kind |-> "backend"]
                    ELSE NoError,
          result |-> NoResult, setsError |-> TRUE, setsResult |-> FALSE]
    ELSE [error |-> NoError, result |-> routeResult,
          setsError |-> FALSE, setsResult |-> TRUE]

\* Mutant: the else is missing, setResult follows setError.
Deliver_NoElse(routeResult) ==
    [error |-> [job |-> routeResult.route_id,
                kind |-> IF routeResult.hasError THEN "backend" ELSE "fallback"],
     result |-> routeResult, setsError |-> routeResult.status = "failed",
     setsResult |-> TRUE]

\* setError(routeResult.error || 'Erro desconhecido na analise da rota.') else setResult
Deliver(routeResult) ==
    IF routeResult.status = "failed"
    THEN [error |-> [job |-> routeResult.route_id,
                     kind |-> IF routeResult.hasError THEN "backend" ELSE "fallback"],
          result |-> NoResult, setsError |-> TRUE, setsResult |-> FALSE]
    ELSE [error |-> NoError, result |-> routeResult,
          setsError |-> FALSE, setsResult |-> TRUE]

\* catch (err) { setError(err.response?.data?.detail || err.message || '...') }
Caught(j, kind) ==
    [error |-> [job |-> j, kind |-> kind], result |-> NoResult,
     setsError |-> TRUE, setsResult |-> FALSE]

\* The tail of handleAnalyze once pollRoute has returned or something has thrown:
\* the setError / setResult of the try or catch block, then finally setLoading(false).
Settle(j, jr, outcome, d) ==
    /\ error' = IF d.setsError THEN d.error ELSE error
    /\ result' = IF d.setsResult THEN d.result ELSE result
    /\ loading' = FALSE
    /\ job' = [job EXCEPT ![j] =
                 [jr EXCEPT !.pc = "done", !.outcome = outcome,
                            !.reports = @ + (IF d.setsError THEN 1 ELSE 0)
                                          + (IF d.setsResult THEN 1 ELSE 0),
                            !.lateReports = @ + (IF jr.abandoned # "no"
                                                 THEN (IF d.setsError THEN 1 ELSE 0)
                                                    + (IF d.setsResult THEN 1 ELSE 0)
                                                 ELSE 0)]]

\* The head of pollRoute's for loop with counter value i: either the next
\* getRouteResult is issued, or the loop is left and the timeout is thrown,
\* caught by handleAnalyze.
LoopHead(j, jr) ==
    IF LoopContinues(jr.i, jr.maxAttempts)
    THEN /\ job' = [job EXCEPT ![j] = [jr EXCEPT !.pc = "fetching", !.fetches = @ + 1]]
         /\ UNCHANGED <<loading, error, result>>
    ELSE Settle(j, jr, "TimedOut", Caught(j, "timeout"))

\* ----------------------------------------------------------- App.handleAnalyze
\* setLoading(true); setError(null); setResult(null); then POST /routes is in flight.
handleAnalyze(j, maxAttempts) ==
    /\ job[j].pc = "idle"
    /\ j > 1 => job[j - 1].pc # "idle"
    /\ loading' = TRUE
    /\ error' = NoError
    /\ result' = NoResult
    /\ job' = [k \in JobIds |->
                 IF k = j THEN [NewJob EXCEPT !.pc = "submitting", !.maxAttempts = maxAttempts]
                 ELSE IF Active(job[k]) /\ job[k].abandoned = "no"
                      THEN [job[k] EXCEPT !.abandoned = job[k].pc]
                 ELSE job[k]]

\* Mutant: the button is enabled while loading.
canAnalyze_Always == TRUE

\* RoutePanel: const canAnalyze = origin && dest && !loading (button disabled otherwise)
canAnalyze == ~loading

RoutePanel_handleAnalyze(j, maxAttempts) ==
    /\ canAnalyze
    /\ handleAnalyze(j, maxAttempts)

\* createRoute resolved with { route_id }: pollRoute(route_id) starts at i = 0.
createRouteResolve(j) ==
    /\ job[j].pc = "submitting"
    /\ LoopHead(j, [job[j] EXCEPT !.i = 0])

\* Mutant: the error is reported, and pollRoute is entered all the same.
createRouteReject_ThenPolls(j) ==
    /\ job[j].pc = "submitting"
    /\ error' = [job |-> j, kind |-> "submit"]
    /\ loading' = FALSE
    /\ job' = [job EXCEPT ![j] = [@ EXCEPT !.pc = "fetching", !.fetches = @ + 1,
                                            !.outcome = "SubmitError", !.reports = @ + 1]]
    /\ UNCHANGED result

\* createRoute rejected (transport or validation failure on POST /routes).
createRouteReject(j) ==
    /\ job[j].pc = "submitting"
    /\ Settle(j, job[j], "SubmitError", Caught(j, "submit"))

\* The history of job record jr once its fetch was answered with r.
Answered(jr, r) ==
    [jr EXCEPT !.last = r.status,
               !.nonFinal = @ + (IF r.status \in {"pending", "processing"} THEN 1 ELSE 0)]

\* Mutant: a pending or processing answer is handed to setResult as well.
getRouteResultResolve_Partial(j, r) ==
    /\ job[j].pc = "fetching"
    /\ IF IsFinal(r.status)
       THEN Settle(j, [Answered(job[j], r) EXCEPT !.returned = Ident(r)],
                   IF r.status = "failed" THEN "Failed" ELSE "Completed", Deliver(r))
       ELSE /\ job' = [job EXCEPT ![j] = [Answered(@, r) EXCEPT !.pc = "sleeping"]]
            /\ result' = r
            /\ UNCHANGED <<loading, error>>

\* await getRouteResult(routeId) resolved with r.
getRouteResultResolve(j, r) ==
    /\ job[j].pc = "fetching"
    /\ IF IsFinal(r.status)
       THEN Settle(j, [Answered(job[j], r) EXCEPT !.returned = Ident(r)],
                   IF r.status = "failed" THEN "Failed" ELSE "Completed", Deliver(r))
       ELSE /\ job' = [job EXCEPT ![j] = [Answered(@, r) EXCEPT !.pc = "sleeping"]]
            /\ UNCHANGED <<loading, error, result>>

\* Mutant: pollRoute swallows the rejection and goes on to the next attempt.
getRouteResultReject_Retry(j) ==
    /\ job[j].pc = "fetching"
    /\ LoopHead(j, [job[j] EXCEPT !.last = "rejected", !.i = @ + 1])

\* await getRouteResult(routeId) rejected: the error leaves pollRoute uncaught.
getRouteResultReject(j) ==
    /\ job[j].pc = "fetching"
    /\ Settle(j, [job[j] EXCEPT !.last = "rejected"], "TransportError",
              Caught(j, "transport"))

\* await new Promise((r) => setTimeout(r, interval)) resolved: i++ and loop.
sleepResolve(j) ==
    /\ job[j].pc = "sleeping"
    /\ LoopHead(j, [job[j] EXCEPT !.i = @ + 1])


\* ------------------------------------------------------- the map surface
\* Identifiers are kept as their '-'-separated tokens: 'congestion-seg-line-0'
\* is <<"congestion", "seg", "line", "0">>.
Digits == <<"0", "1", "2", "3", "4", "5", "6", "7", "8", "9">>

\* `${idx}`
IdxToken(idx) == Digits[idx + 1]

\* const sourceId = `congestion-seg-${idx}`
SegSourceId(idx) == <<"congestion", "seg", IdxToken(idx)>>
\* const lineId = `congestion-seg-line-${idx}`
SegLineId(idx) == <<"congestion", "seg", "line", IdxToken(idx)>>
\* const outlineId = `congestion-seg-outline-${idx}`
SegOutlineId(idx) == <<"congestion", "seg", "outline", IdxToken(idx)>>

\* Mutant: only the ids 'congestion-seg-line-...' are matched.
StartsWithCongestionSeg_LineOnly(id) ==
    Len(id) >= 4 /\ id[1] = "congestion" /\ id[2] = "seg" /\ id[3] = "line"

\* id.startsWith('congestion-seg-')
StartsWithCongestionSeg(id) ==
    Len(id) >= 3 /\ id[1] = "congestion" /\ id[2] = "seg"

\* A channel's data as a ref or a prop holds it: n elements of result gen;
\* bad: one of the elements lacks its coordinates.
Absent == [n |-> 0, gen |-> 0, bad |-> FALSE]

\* The surface while one listener or effect runs: thrown is an exception
\* leaving the running function (what follows it in the call is skipped),
\* errors an error event fired by the map, rebuilds the rebuildLayers calls.
Surface(src, lay) ==
    [sources |-> src, layers |-> lay, thrown |-> FALSE, errors |-> FALSE, rebuilds |-> 0]

getLayer(S, id) == \E k \in 1..Len(S.layers) : S.layers[k].id = id

getSource(S, id) == \E s \in S.sources : s.id = id

\* map.removeLayer(id): an unknown id fires an error event.
removeLayer(S, id) ==
    IF S.thrown THEN S
    ELSE IF getLayer(S, id)
         THEN [S EXCEPT !.layers = SelectSeq(@, LAMBDA l : l.id # id)]
         ELSE [S EXCEPT !.errors = TRUE]

\* map.removeSource(id): an unknown id throws; a source a layer still uses
\* stays, with an error event.
removeSource(S, id) ==
    IF S.thrown THEN S
    ELSE IF ~getSource(S, id) THEN [S EXCEPT !.thrown = TRUE]
    ELSE IF \E k \in 1..Len(S.layers) : S.layers[k].source = id
         THEN [S EXCEPT !.errors = TRUE]
         ELSE [S EXCEPT !.sources = {s \in @ : s.id # id}]

\* map.addSource(id, { type: 'geojson', data }): an id in use throws.
addSource(S, id, data) ==
    IF S.thrown THEN S
    ELSE IF getSource(S, id) THEN [S EXCEPT !.thrown = TRUE]
    ELSE [S EXCEPT !.sources = @ \cup {[id |-> id, data |-> data]}]

\* map.addLayer({ id, type, source }): the layer goes on top of the stack; an id
\* in use or a missing source fires an error event and adds nothing.
addLayer(S, id, type, source) ==
    IF S.thrown THEN S
    ELSE IF getLayer(S, id) \/ ~getSource(S, source) THEN [S EXCEPT !.errors = TRUE]
    ELSE [S EXCEPT !.layers = Append(@, [id |-> id, type |-> type, source |-> source])]

\* if (m.getLayer(id)) m.removeLayer(id)
removeLayerIfAny(S, id) == IF ~S.thrown /\ getLayer(S, id) THEN removeLayer(S, id) ELSE S

\* if (m.getSource(id)) m.removeSource(id)
removeSourceIfAny(S, id) == IF ~S.thrown /\ getSource(S, id) THEN removeSource(S, id) ELSE S

\* The refs read by the add* functions.
Refs(geom, segs, smp, tolls, acc, sig) ==
    [geom |-> geom, segs |-> segs, samples |-> smp, tolls |-> tolls,
     accidents |-> acc, signals |-> sig]

\* ------------------------------------------------------------ MapView add*
\* Mutant: the route source and layers are added without removing the old ones.
addRouteLayers_NoCleanup(S, R) ==
    IF S.thrown \/ R.geom.n = 0 THEN S
    ELSE LET S4 == addSource(S, <<"route">>, R.geom)
             S5 == addLayer(S4, <<"route", "outline">>, "line", <<"route">>)
         IN  IF ~(R.segs.n > 0)
             THEN addLayer(S5, <<"route", "line">>, "line", <<"route">>)
             ELSE S5

addRouteLayers(S, R) ==
    IF S.thrown \/ R.geom.n = 0 THEN S
    ELSE LET S1 == removeLayerIfAny(S, <<"route", "line">>)
             S2 == removeLayerIfAny(S1, <<"route", "outline">>)
             S3 == removeSourceIfAny(S2, <<"route">>)
             hasCongestion == R.segs.n > 0
             S4 == addSource(S3, <<"route">>, R.geom)
             S5 == addLayer(S4, <<"route", "outline">>, "line", <<"route">>)
         IN  IF ~hasCongestion
             THEN addLayer(S5, <<"route", "line">>, "line", <<"route">>)
             ELSE S5

addTollLayers(S, R) ==
    IF S.thrown THEN S
    ELSE LET S1 == removeLayerIfAny(S, <<"toll", "labels">>)
             S2 == removeLayerIfAny(S1, <<"toll", "circles">>)
             S3 == removeSourceIfAny(S2, <<"tolls">>)
         IN  IF R.tolls.n = 0 THEN S3
             ELSE LET S4 == addSource(S3, <<"tolls">>, R.tolls)
                      S5 == addLayer(S4, <<"toll", "circles">>, "circle", <<"tolls">>)
                  IN  addLayer(S5, <<"toll", "labels">>, "symbol", <<"tolls">>)

addAccidentLayers(S, R) ==
    IF S.thrown THEN S
    ELSE LET S1 == removeLayerIfAny(S, <<"accident", "labels">>)
             S2 == removeLayerIfAny(S1, <<"accident", "circles">>)
             S3 == removeSourceIfAny(S2, <<"accidents">>)
         IN  IF R.accidents.n = 0 THEN S3
             ELSE LET S4 == addSource(S3, <<"accidents">>, R.accidents)
                      S5 == addLayer(S4, <<"accident", "circles">>, "circle", <<"accidents">>)
                  IN  addLayer(S5, <<"accident", "labels">>, "symbol", <<"accidents">>)

addTrafficLightLayers(S, R) ==
    IF S.thrown THEN S
    ELSE LET S1 == removeLayerIfAny(S, <<"signal", "labels">>)
             S2 == removeLayerIfAny(S1, <<"signal", "circles">>)
             S3 == removeSourceIfAny(S2, <<"signals">>)
         IN  IF R.signals.n = 0 THEN S3
             ELSE LET S4 == addSource(S3, <<"signals">>, R.signals)
                      S5 == addLayer(S4, <<"signal", "circles">>, "circle", <<"signals">>)
                  IN  addLayer(S5, <<"signal", "labels">>, "symbol", <<"signals">>)

addSampleLayers(S, R) ==
    IF S.thrown THEN S
    ELSE LET S1 == removeLayerIfAny(S, <<"samples", "labels">>)
             S2 == removeLayerIfAny(S1, <<"samples", "circles">>)
             S3 == removeLayerIfAny(S2, <<"samples", "circles", "stroke">>)
             S4 == removeSourceIfAny(S3, <<"samples">>)
         IN  IF R.samples.n = 0 THEN S4
             ELSE IF R.samples.bad THEN [S4 EXCEPT !.thrown = TRUE]
             ELSE LET S5 == addSource(S4, <<"samples">>, R.samples)
                      S6 == addLayer(S5, <<"samples", "circles", "stroke">>, "circle",
                                     <<"samples">>)
                      S7 == addLayer(S6, <<"samples", "circles">>, "circle", <<"samples">>)
                  IN  addLayer(S7, <<"samples", "labels">>, "symbol", <<"samples">>)

\* existingLayers.forEach((l) => { if (l.id.startsWith('congestion-seg-')) m.removeLayer(l.id) })
\* over the snapshot m.getStyle().layers, from position k on.
RECURSIVE RemoveSegLayers(_, _, _)
RemoveSegLayers(S, existingLayers, k) ==
    IF k > Len(existingLayers) THEN S
    ELSE RemoveSegLayers(IF StartsWithCongestionSeg(existingLayers[k].id)
                         THEN removeLayer(S, existingLayers[k].id) ELSE S,
                         existingLayers, k + 1)

\* Mutant: the congestion sources are left in place.
RemoveSegSources_None(S, existingSources) == S

\* existingSources.forEach((s) => { if (s.startsWith('congestion-seg-')) m.removeSource(s) })
RECURSIVE RemoveSegSources(_, _)
RemoveSegSources(S, existingSources) ==
    IF existingSources = {} THEN S
    ELSE LET s == CHOOSE x \in existingSources : TRUE
         IN  RemoveSegSources(IF StartsWithCongestionSeg(s) THEN removeSource(S, s) ELSE S,
                              existingSources \ {s})

\* segments.forEach((seg, idx) => { addSource; addLayer outline; addLayer line }) from idx on.
RECURSIVE AddSegments(_, _, _)
AddSegments(S, segs, idx) ==
    IF idx >= segs.n THEN S
    ELSE LET S1 == addSource(S, SegSourceId(idx), segs)
             S2 == addLayer(S1, SegOutlineId(idx), "line", SegSourceId(idx))
             S3 == addLayer(S2, SegLineId(idx), "line", SegSourceId(idx))
         IN  AddSegments(S3, segs, idx + 1)

\* The removal half of addCongestionLayers.
RemoveCongestion(S) ==
    LET S1 == RemoveSegLayers(S, S.layers, 1)
    IN  RemoveSegSources(S1, {s.id : s \in S1.sources})

addCongestionLayers(S, R) ==
    IF S.thrown THEN S
    ELSE LET S2 == RemoveCongestion(S)
         IN  IF R.segs.n = 0 THEN S2 ELSE AddSegments(S2, R.segs, 0)

\* Mutant: the point channels are rebuilt before the route and the congestion.
RebuildOrder_PointsFirst ==
    <<"addSampleLayers", "addTollLayers", "addAccidentLayers", "addTrafficLightLayers",
      "addRouteLayers", "addCongestionLayers">>

\* The order in which rebuildLayers calls the add* functions.
RebuildOrder ==
    <<"addRouteLayers", "addCongestionLayers", "addSampleLayers", "addTollLayers",
      "addAccidentLayers", "addTrafficLightLayers">>

Call(f, S, R) ==
    CASE f = "addRouteLayers" -> addRouteLayers(S, R)
      [] f = "addCongestionLayers" -> addCongestionLayers(S, R)
      [] f = "addSampleLayers" -> addSampleLayers(S, R)
      [] f = "addTollLayers" -> addTollLayers(S, R)
      [] f = "addAccidentLayers" -> addAccidentLayers(S, R)
      [] f = "addTrafficLightLayers" -> addTrafficLightLayers(S, R)

RECURSIVE CallAll(_, _, _, _)
CallAll(fs, k, S, R) ==
    IF k > Len(fs) THEN S ELSE CallAll(fs, k + 1, Call(fs[k], S, R), R)

rebuildLayers(S, R) ==
    IF S.thrown THEN S
    ELSE [CallAll(RebuildOrder, 1, S, R) EXCEPT !.rebuilds = @ + 1]

\* The callbacks MapView hands to map.once('styledata', ...) or runs at once.
RunListener(name, S, R) ==
    CASE name = "rebuildLayers" -> rebuildLayers(S, R)
      [] name = "routeDoIt" ->
            CallAll(<<"addRouteLayers", "addCongestionLayers", "addSampleLayers",
                      "addTrafficLightLayers">>, 1, S, R)
      [] name = "congestionDoIt" ->
            CallAll(<<"addRouteLayers", "addCongestionLayers">>, 1, S, R)
      [] OTHER -> Call(name, S, R)

RECURSIVE RunListeners(_, _, _, _)
RunListeners(names, k, S, R) ==
    IF k > Len(names) \/ S.thrown THEN S
    ELSE RunListeners(names, k + 1, RunListener(names[k], S, R), R)

\* ------------------------------------------------------- MapView effects
\* App passes routeGeometry={result?.route_geometry}, samples={result?.samples}, ...
Prop(res, f) ==
    IF res.data[f] = 0 THEN Absent
    ELSE [n |-> res.data[f], gen |-> res.route_id, bad |-> f \in res.malformed]

Changed(old, new, f) == Prop(old, f) # Prop(new, f)

\* The data-change effects whose dependency changed between two renders, in
\* the order MapView declares them; the route effect returns at once without a
\* routeGeometry.
TriggeredEffects(old, new) ==
    (IF Changed(old, new, "route_geometry") /\ Prop(new, "route_geometry").n > 0
     THEN <<"routeDoIt">> ELSE <<>>)
    \o (IF Changed(old, new, "samples") THEN <<"addSampleLayers">> ELSE <<>>)
    \o (IF Changed(old, new, "toll_points") THEN <<"addTollLayers">> ELSE <<>>)
    \o (IF Changed(old, new, "accident_points") THEN <<"addAccidentLayers">> ELSE <<>>)
    \o (IF Changed(old, new, "congestion_segments") THEN <<"congestionDoIt">> ELSE <<>>)
    \o (IF Changed(old, new, "traffic_light_points")
        THEN <<"addTrafficLightLayers">> ELSE <<>>)

\* Mutant: the ref keeps the first geometry it was given.
SyncRouteGeomRef_KeepFirst(current, routeGeometry) ==
    IF current.n > 0 THEN current ELSE routeGeometry

\* useEffect(() => { if (routeGeometry) routeGeomRef.current = routeGeometry }, [routeGeometry])
SyncRouteGeomRef(current, routeGeometry) ==
    IF routeGeometry.n > 0 THEN routeGeometry ELSE current

CurrentRefs ==
    Refs(routeGeomRef, congestionSegmentsRef, samplesRef, tollPointsRef,
         accidentPointsRef, trafficLightPointsRef)

\* Mutant: the effects run at once, whether the style is loaded or not.
MapViewRender_NoDefer ==
    LET R == Refs(SyncRouteGeomRef(routeGeomRef, Prop(result', "route_geometry")),
                  Prop(result', "congestion_segments"), Prop(result', "samples"),
                  Prop(result', "toll_points"), Prop(result', "accident_points"),
                  Prop(result', "traffic_light_points"))
        effects == TriggeredEffects(result, result')
        S == RunListeners(effects, 1, Surface(sources, layers), R)
    IN  /\ routeGeomRef' = R.geom
        /\ congestionSegmentsRef' = R.segs
        /\ prevSegs' = congestionSegmentsRef.n
        /\ samplesRef' = R.samples
        /\ tollPointsRef' = R.tolls
        /\ accidentPointsRef' = R.accidents
        /\ trafficLightPointsRef' = R.signals
        /\ IF TRUE
           THEN /\ sources' = S.sources
                /\ layers' = S.layers
                /\ mapError' = (mapError \/ S.thrown \/ S.errors)
                /\ UNCHANGED onceStyledata
           ELSE /\ onceStyledata' = onceStyledata \o effects
                /\ UNCHANGED <<sources, layers, mapError>>
        /\ UNCHANGED <<theme, style, styleLoaded, pendingStyles, lastReady, uiVars>>

\* The render that follows a change of App's result: the ref-sync effects,
\* then each triggered data effect, run now when the style is loaded and
\* otherwise handed to map.once('styledata', ...).
MapViewRender ==
    LET R == Refs(SyncRouteGeomRef(routeGeomRef, Prop(result', "route_geometry")),
                  Prop(result', "congestion_segments"), Prop(result', "samples"),
                  Prop(result', "toll_points"), Prop(result', "accident_points"),
                  Prop(result', "traffic_light_points"))
        effects == TriggeredEffects(result, result')
        S == RunListeners(effects, 1, Surface(sources, layers), R)
    IN  /\ routeGeomRef' = R.geom
        /\ congestionSegmentsRef' = R.segs
        /\ prevSegs' = congestionSegmentsRef.n
        /\ samplesRef' = R.samples
        /\ tollPointsRef' = R.tolls
        /\ accidentPointsRef' = R.accidents
        /\ trafficLightPointsRef' = R.signals
        /\ IF styleLoaded
           THEN /\ sources' = S.sources
                /\ layers' = S.layers
                /\ mapError' = (mapError \/ S.thrown \/ S.errors)
                /\ UNCHANGED onceStyledata
           ELSE /\ onceStyledata' = onceStyledata \o effects
                /\ UNCHANGED <<sources, layers, mapError>>
        /\ UNCHANGED <<theme, style, styleLoaded, pendingStyles, lastReady, uiVars>>

\* MapView rendered with new props: each present prop is a new object of
\* generation g, an absent one is undefined.
MapViewProps(g, d) ==
    /\ g # result.route_id
    /\ result' = IF d = NoPayload THEN NoResult ELSE Response(g, 1, "completed", FALSE, d)
    /\ result' # result
    /\ UNCHANGED <<loading, error, job>>
    /\ MapViewRender

\* MapView rendered with new props of generation g, in which an element of
\* each field of fs has no lat and no lon.
MapViewPropsMalformed(g, d, fs) ==
    /\ g # result.route_id
    /\ result' = [Response(g, 1, "completed", FALSE, d) EXCEPT !.malformed = fs]
    /\ UNCHANGED <<loading, error, job>>
    /\ MapViewRender

\* Mutant: the style is set and no listener is registered.
StyleEffect_NoListener ==
    /\ pendingStyles < MaxPendingStyles
    /\ sources' = {}
    /\ layers' = <<>>
    /\ styleLoaded' = FALSE
    /\ pendingStyles' = pendingStyles + 1
    /\ UNCHANGED <<onceStyledata, mapError, lastReady, prevSegs, refVars, jobVars, uiVars>>

\* The [theme, style] effect: map.setStyle(getStyleSpec(key)) drops every
\* source and layer of the surface; map.once('styledata', rebuildLayers).
StyleEffect ==
    /\ pendingStyles < MaxPendingStyles
    /\ sources' = {}
    /\ layers' = <<>>
    /\ styleLoaded' = FALSE
    /\ onceStyledata' = Append(onceStyledata, "rebuildLayers")
    /\ pendingStyles' = pendingStyles + 1
    /\ UNCHANGED <<mapError, lastReady, prevSegs, refVars, jobVars, uiVars>>

\* ThemeContext.toggle
toggle ==
    /\ theme' = IF theme = "light" THEN "dark" ELSE "light"
    /\ UNCHANGED style
    /\ StyleEffect

StyleKeys == {"streets", "satellite"}

\* onClick={() => { setStyle(key); setShowLayerMenu(false) }}
setStyle(key) ==
    /\ key # style
    /\ style' = key
    /\ UNCHANGED theme
    /\ StyleEffect

\* The surface fires 'styledata': every once-listener runs, in the order registered.
StyleReady ==
    /\ ~styleLoaded
    /\ LET S == RunListeners(onceStyledata, 1, Surface(sources, layers), CurrentRefs)
       IN  /\ sources' = S.sources
           /\ layers' = S.layers
           /\ mapError' = (mapError \/ S.thrown \/ S.errors)
           /\ lastReady' = [styles |-> pendingStyles, rebuilds |-> S.rebuilds]
    /\ styleLoaded' = TRUE
    /\ onceStyledata' = <<>>
    /\ pendingStyles' = 0
    /\ UNCHANGED <<theme, style, prevSegs, refVars, jobVars, uiVars>>

\* ------------------------------------------------------- MapView popups
\* useRef<maplibregl.Popup | null>(null): null, or a Popup made for a feature
\* kind, on the map until it is removed.
NoPopup == [kind |-> "null", onMap |-> FALSE]

\* new maplibregl.Popup({...}).setLngLat(...).setHTML(...).addTo(m)
Popup(kind) == [kind |-> kind, onMap |-> TRUE]

\* ref.current?.remove()
remove(p) == [p EXCEPT !.onMap = FALSE]

\* The circle layers with a mouseenter handler, by the channel's name.
HoverLayers == {"samples", "toll", "accident", "signal"}

\* The pointer is over a feature of the layer `${kind}-circles`.
HasFeature(kind) == styleLoaded /\ getLayer(Surface(sources, layers), <<kind, "circles">>)

\* m.on('click', 'samples-circles', ...)
click_samples_circles ==
    /\ mouseOver = "samples"
    /\ HasFeature("samples")
    /\ clickPopupRef' = Popup("samples")
    /\ hoverPopupRef' = remove(hoverPopupRef)
    /\ UNCHANGED <<cursor, showPointsList, mouseOver>>

\* m.on('mouseenter', 'samples-circles', ...)
mouseenter_samples_circles ==
    /\ mouseOver = "none"
    /\ HasFeature("samples")
    /\ mouseOver' = "samples"
    /\ cursor' = "pointer"
    /\ hoverPopupRef' = IF clickPopupRef # NoPopup THEN hoverPopupRef ELSE Popup("samples")
    /\ UNCHANGED <<clickPopupRef, showPointsList>>

\* m.on('mouseenter', 'toll-circles' | 'accident-circles' | 'signal-circles', ...)
mouseenter_circles(kind) ==
    /\ mouseOver = "none"
    /\ HasFeature(kind)
    /\ mouseOver' = kind
    /\ cursor' = "pointer"
    /\ hoverPopupRef' = Popup(kind)
    /\ UNCHANGED <<clickPopupRef, showPointsList>>

\* m.on('mouseleave', `${kind}-circles`, ...)
mouseleave_circles(kind) ==
    /\ mouseOver = kind
    /\ mouseOver' = "none"
    /\ cursor' = ""
    /\ hoverPopupRef' = NoPopup
    /\ UNCHANGED <<clickPopupRef, showPointsList>>

\* onClick={() => { setShowPointsList(!showPointsList); ... }}
togglePointsList ==
    /\ mouseOver = "none"
    /\ showPointsList' = ~showPointsList
    /\ UNCHANGED <<clickPopupRef, hoverPopupRef, cursor, mouseOver>>

\* Points list entry: onMouseEnter
list_onMouseEnter ==
    /\ mouseOver = "none"
    /\ showPointsList /\ samplesRef.n > 0
    /\ mouseOver' = "list"
    /\ hoverPopupRef' = Popup("list")
    /\ UNCHANGED <<clickPopupRef, cursor, showPointsList>>

\* Points list entry: onMouseLeave={() => hoverPopupRef.current?.remove()}
list_onMouseLeave ==
    /\ mouseOver = "list"
    /\ mouseOver' = "none"
    /\ hoverPopupRef' = remove(hoverPopupRef)
    /\ UNCHANGED <<clickPopupRef, cursor, showPointsList>>

\* The user closes the click popup with its close button.
closeButton ==
    /\ clickPopupRef.onMap
    /\ clickPopupRef' = remove(clickPopupRef)
    /\ UNCHANGED <<hoverPopupRef, cursor, showPointsList, mouseOver>>

\* A click on the map away from the sample circles: every popup on the map
\* closes itself (closeOnClick is left at its default).
mapClick ==
    /\ mouseOver \in {"none", "toll", "accident", "signal"}
    /\ clickPopupRef.onMap \/ hoverPopupRef.onMap
    /\ clickPopupRef' = remove(clickPopupRef)
    /\ hoverPopupRef' = remove(hoverPopupRef)
    /\ UNCHANGED <<cursor, showPointsList, mouseOver>>

\* Everything a popup handler leaves alone.
NotPopup == <<jobVars, theme, style, surfaceVars, refVars, lightVars, navVars>>

\* ---------------------------------------------------- TrafficLightPopup
\* signal: TrafficLightPoint | null; null is the signal without a cycle.
NoSignal == [green_duration |-> 0, yellow_duration |-> 0, red_duration |-> 0]

TrafficLightPoint(g, y, r) == [green_duration |-> g, yellow_duration |-> y, red_duration |-> r]

\* The signals the popup is given: every cycle of durations up to MaxDuration,
\* and the cycle of 30, 5 and 25 seconds.
Signals ==
    ({TrafficLightPoint(g, y, r) : g, y, r \in 0..MaxDuration}
        \cup {TrafficLightPoint(30, 5, 25)}) \ {NoSignal}

\* const totalCycle = green_duration + yellow_duration + red_duration
totalCycle(sig) == sig.green_duration + sig.yellow_duration + sig.red_duration

\* Mutant: the green phase also takes the second where pos = green_duration.
getPhaseAndRemaining_GreenLate(sig, t) ==
    LET pos == t % totalCycle(sig)
    IN  IF pos <= sig.green_duration
        THEN [phase |-> "green", remaining |-> sig.green_duration - pos]
        ELSE IF pos < sig.green_duration + sig.yellow_duration
        THEN [phase |-> "yellow",
              remaining |-> sig.green_duration + sig.yellow_duration - pos]
        ELSE [phase |-> "red", remaining |-> totalCycle(sig) - pos]

\* Mutant: the remaining seconds run down to 0.
getPhaseAndRemaining_ToZero(sig, t) ==
    LET pos == t % totalCycle(sig)
    IN  IF pos < sig.green_duration
        THEN [phase |-> "green", remaining |-> sig.green_duration - pos - 1]
        ELSE IF pos < sig.green_duration + sig.yellow_duration
        THEN [phase |-> "yellow",
              remaining |-> sig.green_duration + sig.yellow_duration - pos - 1]
        ELSE [phase |-> "red", remaining |-> totalCycle(sig) - pos - 1]

getPhaseAndRemaining(sig, t) ==
    LET pos == t % totalCycle(sig)
    IN  IF pos < sig.green_duration
        THEN [phase |-> "green", remaining |-> sig.green_duration - pos]
        ELSE IF pos < sig.green_duration + sig.yellow_duration
        THEN [phase |-> "yellow",
              remaining |-> sig.green_duration + sig.yellow_duration - pos]
        ELSE [phase |-> "red", remaining |-> totalCycle(sig) - pos]

\* The ids setInterval can return: never one still running or held by the ref.
IntervalIds == 1..3

\* clearInterval(id)
clearInterval(running, id) == {t \in running : t.id # id}

\* Mutant: the cleanup of the previous effect run clears nothing.
EffectCleanup_None(running) == running

\* return () => { if (intervalRef.current) clearInterval(intervalRef.current) },
\* run when the effect that returned it is replaced.
EffectCleanup(running) ==
    IF signal # NoSignal /\ visible /\ intervalRef # 0
    THEN clearInterval(running, intervalRef) ELSE running

\* TrafficLightPopup rendered with new props: the cleanup of the last effect
\* run, then the [signal, visible] effect.
TrafficLightPopupProps(sig, vis) ==
    /\ <<sig, vis>> # <<signal, visible>>
    /\ signal' = sig
    /\ visible' = vis
    /\ LET cleaned == EffectCleanup(intervals)
       IN  IF sig = NoSignal \/ ~vis
           THEN /\ intervals' = (IF intervalRef # 0
                                 THEN clearInterval(cleaned, intervalRef) ELSE cleaned)
                /\ UNCHANGED <<phase, countdown, intervalRef>>
           ELSE \E startOffset \in 0..(totalCycle(sig) - 1) :
                \E id \in IntervalIds :
                    /\ id = CHOOSE i \in IntervalIds :
                                i # intervalRef /\ \A t \in cleaned : t.id # i
                    /\ phase' = getPhaseAndRemaining(sig, startOffset).phase
                    /\ countdown' = getPhaseAndRemaining(sig, startOffset).remaining
                    /\ intervalRef' = id
                    /\ intervals' = cleaned \cup
                            {[id |-> id, signal |-> sig, elapsed |-> startOffset]}

\* Mutant: a firing adds 2 to elapsed.
tick_TwoSeconds(id) ==
    \E t \in intervals :
        /\ t.id = id
        /\ t.elapsed < MaxElapsed
        /\ phase' = getPhaseAndRemaining(t.signal, t.elapsed + 2).phase
        /\ countdown' = getPhaseAndRemaining(t.signal, t.elapsed + 2).remaining
        /\ intervals' = (intervals \ {t}) \cup {[t EXCEPT !.elapsed = @ + 2]}
        /\ UNCHANGED <<signal, visible, intervalRef>>

\* One firing of a running interval: elapsed += 1; setPhase(p); setCountdown(remaining)
tick(id) ==
    \E t \in intervals :
        /\ t.id = id
        /\ t.elapsed < MaxElapsed
        /\ phase' = getPhaseAndRemaining(t.signal, t.elapsed + 1).phase
        /\ countdown' = getPhaseAndRemaining(t.signal, t.elapsed + 1).remaining
        /\ intervals' = (intervals \ {t}) \cup {[t EXCEPT !.elapsed = @ + 1]}
        /\ UNCHANGED <<signal, visible, intervalRef>>

\* Everything TrafficLightPopup leaves alone.
NotLight == <<jobVars, theme, style, surfaceVars, refVars, popupVars, navVars>>

\* ------------------------------------------------- mobile App: navigation
\* useState<Coordinates | null>(null); a position is its distance in metres
\* along the road from the traffic light of the result.
NoLocation == [known |-> FALSE, at |-> 0]

Coordinates(at) == [known |-> TRUE, at |-> at]

\* The positions the GPS provider reports.
Locations == {Coordinates(at) : at \in {0, 150, 250}}

\* The mount effect: getCurrentPositionAsync resolved (permission granted).
getCurrentPositionResolve(loc) ==
    /\ ~userLocation.known
    /\ userLocation' = loc
    /\ UNCHANGED <<navigationMode, navRun, watches>>

\* return () => { sub?.remove() }: sub is still null while watchPositionAsync
\* is pending, and then nothing is removed.
RemoveSub(w) == {x \in w : ~(x.run = navRun /\ x.state = "active")}

\* onPress={() => setNavigationMode(!navigationMode)} and the
\* [navigationMode] effect: cleanup of the last run, then the new run.
toggleNavigation ==
    /\ navigationMode' = ~navigationMode
    /\ IF navigationMode
       THEN /\ watches' = RemoveSub(watches)
            /\ UNCHANGED navRun
       ELSE /\ navRun < MaxNavRuns
            /\ navRun' = navRun + 1
            /\ watches' = watches \cup {[run |-> navRun + 1, state |-> "pending"]}
    /\ UNCHANGED userLocation

\* sub = await Location.watchPositionAsync(...)
watchPositionAsyncResolve(run) ==
    /\ [run |-> run, state |-> "pending"] \in watches
    /\ watches' = (watches \ {[run |-> run, state |-> "pending"]})
                        \cup {[run |-> run, state |-> "active"]}
    /\ UNCHANGED <<navigationMode, userLocation, navRun>>

\* The watchPositionAsync callback: setUserLocation, animateCamera.
locationUpdate(run, loc) ==
    /\ [run |-> run, state |-> "active"] \in watches
    /\ userLocation' = loc
    /\ UNCHANGED <<navigationMode, navRun, watches>>

\* Everything the navigation handlers leave alone.
NotNav == <<jobVars, theme, style, surfaceVars, refVars, popupVars, lightVars>>

\* ----------------------------------------------------------- specifications
\* After the first commit: the mount effects have created the map, called
\* setStyle and registered rebuildLayers and the data effects that found the
\* style not loaded (the route effect returned: no routeGeometry yet).
Init ==
    /\ loading = FALSE
    /\ error = NoError
    /\ result = NoResult
    /\ job = [j \in JobIds |-> NewJob]
    /\ theme \in {"light", "dark"}
    /\ style = "streets"
    /\ styleLoaded = FALSE
    /\ onceStyledata = <<"rebuildLayers", "addSampleLayers", "addTollLayers",
                         "addAccidentLayers", "congestionDoIt", "addTrafficLightLayers">>
    /\ sources = {}
    /\ layers = <<>>
    /\ mapError = FALSE
    /\ routeGeomRef = Absent
    /\ samplesRef = Absent
    /\ tollPointsRef = Absent
    /\ accidentPointsRef = Absent
    /\ congestionSegmentsRef = Absent
    /\ trafficLightPointsRef = Absent
    /\ pendingStyles = 1
    /\ lastReady = [styles |-> 0, rebuilds |-> 0]
    /\ prevSegs = 0
    /\ clickPopupRef = NoPopup
    /\ hoverPopupRef = NoPopup
    /\ cursor = ""
    /\ showPointsList = FALSE
    /\ mouseOver = "none"
    /\ signal = NoSignal
    /\ visible = FALSE
    /\ phase = "green"
    /\ countdown = 0
    /\ intervalRef = 0
    /\ intervals = {}
    /\ navigationMode = FALSE
    /\ userLocation = NoLocation
    /\ navRun = 0
    /\ watches = {}

\* The job client alone: handleAnalyze is called by whoever holds onAnalyze.
NextJob ==
    \/ \E j \in JobIds, ma \in 1..MaxAttempts : handleAnalyze(j, ma) /\ UNCHANGED mapVars
    \/ \E j \in JobIds : createRouteResolve(j) /\ UNCHANGED mapVars
    \/ \E j \in JobIds : createRouteReject(j) /\ UNCHANGED mapVars
    \/ \E j \in JobIds : \E r \in Responses(j, job[j].fetches, {FullPayload}) :
            getRouteResultResolve(j, r) /\ UNCHANGED mapVars
    \/ \E j \in JobIds : getRouteResultReject(j) /\ UNCHANGED mapVars
    \/ \E j \in JobIds : sleepResolve(j) /\ UNCHANGED mapVars

SpecJob == Init /\ [][NextJob]_vars

\* The application: analyses are started from RoutePanel's button, MapView
\* renders whatever App's result holds, the user switches theme and basemap.
Next ==
    \/ \E j \in JobIds : RoutePanel_handleAnalyze(j, 1) /\ MapViewRender
    \/ \E j \in JobIds : createRouteResolve(j) /\ MapViewRender
    \/ \E j \in JobIds : createRouteReject(j) /\ MapViewRender
    \/ \E j \in JobIds : \E r \in Responses(j, job[j].fetches, Payloads) :
            getRouteResultResolve(j, r) /\ MapViewRender
    \/ \E j \in JobIds : getRouteResultReject(j) /\ MapViewRender
    \/ \E j \in JobIds : sleepResolve(j) /\ MapViewRender
    \/ toggle
    \/ \E key \in StyleKeys : setStyle(key)
    \/ StyleReady

Spec == Init /\ [][Next]_vars

\* The props MapView is given on its own: a geometry and every point channel
\* with every segment count, a geometry and segments alone, or nothing.
MapPayloads ==
    {Payload(1, c, PointFields) : c \in 0..MaxSegs}
        \cup {Payload(1, MaxSegs, {}), NoPayload}

\* MapView alone: its parent hands it any props at any time (while the style
\* loads, as long as fewer than MaxQueue listeners wait for it).
NextMap ==
    \/ \E g \in JobIds, d \in MapPayloads :
            /\ styleLoaded \/ Len(onceStyledata) < MaxQueue
            /\ MapViewProps(g, d)
    \/ toggle
    \/ StyleReady

SpecMap == Init /\ [][NextMap]_vars

\* The payloads of the polled application: everything, a geometry with the
\* segments alone, and a geometry with one segment and every point channel.
PollPayloads ==
    {FullPayload, Payload(1, MaxSegs, {}), Payload(1, 1, PointFields)}

\* The application polling with a budget of MaxAttempts on a map whose style
\* loads once: analyses are started from RoutePanel's button.
NextPoll ==
    \/ \E j \in JobIds : RoutePanel_handleAnalyze(j, MaxAttempts) /\ MapViewRender
    \/ \E j \in JobIds : createRouteResolve(j) /\ MapViewRender
    \/ \E j \in JobIds : createRouteReject(j) /\ MapViewRender
    \/ \E j \in JobIds : \E r \in Responses(j, job[j].fetches, PollPayloads) :
            getRouteResultResolve(j, r) /\ MapViewRender
    \/ \E j \in JobIds : getRouteResultReject(j) /\ MapViewRender
    \/ \E j \in JobIds : sleepResolve(j) /\ MapViewRender
    \/ StyleReady

SpecPoll == Init /\ [][NextPoll]_vars

\* MapView's popups: the map is given a full result or none and the user
\* moves the pointer, clicks and closes.
NextPopup ==
    \/ \E g \in JobIds, d \in {FullPayload, NoPayload} :
            /\ styleLoaded \/ Len(onceStyledata) < MaxQueue
            /\ mouseOver = "none"
            /\ MapViewProps(g, d)
    \/ StyleReady
    \/ click_samples_circles /\ UNCHANGED NotPopup
    \/ mouseenter_samples_circles /\ UNCHANGED NotPopup
    \/ \E kind \in HoverLayers \ {"samples"} : mouseenter_circles(kind) /\ UNCHANGED NotPopup
    \/ \E kind \in HoverLayers : mouseleave_circles(kind) /\ UNCHANGED NotPopup
    \/ togglePointsList /\ UNCHANGED NotPopup
    \/ list_onMouseEnter /\ UNCHANGED NotPopup
    \/ list_onMouseLeave /\ UNCHANGED NotPopup
    \/ closeButton /\ UNCHANGED NotPopup
    \/ mapClick /\ UNCHANGED NotPopup

SpecPopup == Init /\ [][NextPopup]_vars

\* TrafficLightPopup alone: its parent hands it any signal and visibility,
\* the browser fires the running intervals.
NextLight ==
    \/ \E sig \in Signals \cup {NoSignal}, vis \in BOOLEAN :
            TrafficLightPopupProps(sig, vis) /\ UNCHANGED NotLight
    \/ \E id \in IntervalIds : tick(id) /\ UNCHANGED NotLight

SpecLight == Init /\ [][NextLight]_vars

\* The mobile App: analyses from its SearchPanel (disabled while loading),
\* the navigation button, and the GPS provider.
NextNav ==
    \/ \E j \in JobIds : RoutePanel_handleAnalyze(j, 1) /\ UNCHANGED mapVars
    \/ \E j \in JobIds : createRouteResolve(j) /\ UNCHANGED mapVars
    \/ \E j \in JobIds : createRouteReject(j) /\ UNCHANGED mapVars
    \/ \E j \in JobIds : \E r \in Responses(j, job[j].fetches, {FullPayload, NoPayload}) :
            getRouteResultResolve(j, r) /\ UNCHANGED mapVars
    \/ \E j \in JobIds : getRouteResultReject(j) /\ UNCHANGED mapVars
    \/ \E j \in JobIds : sleepResolve(j) /\ UNCHANGED mapVars
    \/ \E loc \in Locations : getCurrentPositionResolve(loc) /\ UNCHANGED NotNav
    \/ toggleNavigation /\ UNCHANGED NotNav
    \/ \E run \in 1..MaxNavRuns : watchPositionAsyncResolve(run) /\ UNCHANGED NotNav
    \/ \E run \in 1..MaxNavRuns, loc \in Locations :
            locationUpdate(run, loc) /\ UNCHANGED NotNav

SpecNav == Init /\ [][NextNav]_vars

\* MapView alone, given results whose samples may lack coordinates.
NextDefect ==
    \/ \E g \in JobIds, d \in {FullPayload, Payload(1, 0, {"samples", "toll_points"})},
           fs \in {{}, {"samples"}} :
            /\ styleLoaded \/ Len(onceStyledata) < MaxQueue
            /\ MapViewPropsMalformed(g, d, fs)
    \/ \E g \in JobIds :
            /\ styleLoaded \/ Len(onceStyledata) < MaxQueue
            /\ MapViewProps(g, NoPayload)
    \/ toggle
    \/ StyleReady

SpecDefect == Init /\ [][NextDefect]_vars

\* ------------------------------------------------------------- the claims
Started(j) == job[j].pc # "idle"

Polled(j) == job[j].fetches > 0

\* C1: pollRoute issues at most maxAttempts fetches; a call whose every fetch
\* was answered pending or processing ends with the timeout error after exactly
\* maxAttempts fetches, and a timed-out call fetches nothing more.
C1_PollBudget ==
    \A j \in JobIds :
        /\ job[j].fetches <= job[j].maxAttempts
        /\ (job[j].pc = "done" /\ Polled(j) /\ job[j].nonFinal = job[j].fetches)
              => /\ job[j].outcome = "TimedOut"
                 /\ job[j].fetches = job[j].maxAttempts
        /\ job[j].outcome = "TimedOut"
              => /\ job[j].pc = "done"
                 /\ job[j].fetches = job[j].maxAttempts
                 /\ job[j].nonFinal = job[j].maxAttempts

C1_Witness ==
    \E j \in JobIds :
        /\ job[j].outcome = "TimedOut"
        /\ job[j].maxAttempts = MaxAttempts
        /\ job[j].fetches = MaxAttempts
        /\ error = [job |-> j, kind |-> "timeout"]

\* C2: once a call has been abandoned while one of its poll fetches was in
\* flight (a later handleAnalyze began), it delivers no result and no error.
C2_NoLateDelivery ==
    \A j \in JobIds : job[j].abandoned = "fetching" => job[j].lateReports = 0

\* C3: at most one call is submitting or polling at any time, and no call
\* applies a result or an error after a later call has begun.
C3_OneActiveJob ==
    /\ Cardinality({j \in JobIds : Active(job[j])}) <= 1
    /\ \A j \in JobIds : job[j].lateReports = 0

\* C4: every call ends in exactly one outcome and reports it once (one setResult
\* or one setError): Completed, Failed, TimedOut, or the error of a rejected
\* createRoute or getRouteResult; the code has no Cancelled outcome. Once the
\* outcome is reported the call reports nothing more and fetches nothing more.
C4_Inv ==
    \A j \in JobIds :
        /\ job[j].outcome # "none" <=> job[j].pc = "done"
        /\ job[j].outcome \in {"none", "Completed", "Failed", "TimedOut",
                               "SubmitError", "TransportError"}
        /\ job[j].reports = (IF job[j].pc = "done" THEN 1 ELSE 0)

C4_Step ==
    \A j \in JobIds : job[j].outcome # "none" => job'[j] = job[j]

C4_ExactlyOneOutcome == [](C4_Inv) /\ [][C4_Step]_vars

C4_Witness ==
    /\ \A j \in JobIds : job[j].pc = "done" /\ job[j].reports = 1
    /\ job[1].outcome = "TransportError"
    /\ job[1].fetches > 1
    /\ job[MaxJobs].outcome = "Completed"

\* C4 as stated: the outcome of a call that was accepted and has ended is one
\* of Completed, Failed, TimedOut and Cancelled.
C4_FourOutcomes ==
    \A j \in JobIds :
        (job[j].pc = "done" /\ Polled(j))
            => /\ job[j].outcome \in {"Completed", "Failed", "TimedOut", "Cancelled"}
               /\ job[j].reports = 1

\* C5: the first fetch answered completed or failed ends pollRoute, which
\* returns that very answer; a fetch answered pending or processing is followed
\* by another one unless the budget is spent; pollRoute never returns a pending
\* or processing result.
C5_PollLoop ==
    \A j \in JobIds :
        /\ job[j].last \in {"completed", "failed"}
              => /\ job[j].pc = "done"
                 /\ job[j].returned =
                        [route_id |-> j, seq |-> job[j].fetches, status |-> job[j].last]
                 /\ job[j].nonFinal = job[j].fetches - 1
        /\ job[j].last \in {"pending", "processing"}
              => /\ job[j].returned.status = "none"
                 /\ job[j].pc = "sleeping" \/ job[j].pc = "fetching"
                       \/ (job[j].pc = "done" /\ job[j].fetches = job[j].maxAttempts)
        /\ job[j].returned.status \in {"none", "completed", "failed"}

C5_Witness ==
    \E j \in JobIds :
        /\ job[j].outcome = "Failed"
        /\ job[j].fetches = MaxAttempts
        /\ job[j].nonFinal = MaxAttempts - 1
        /\ job[j].returned.seq = MaxAttempts

\* ---------------------------------------------------- the claims: MapView
Here == Surface(sources, layers)

SourceIds(S) == {x.id : x \in S.sources}

LayerIds(S) == {S.layers[k].id : k \in 1..Len(S.layers)}

NoDuplicateIds(S) ==
    /\ Cardinality(SourceIds(S)) = Cardinality(S.sources)
    /\ \A a, b \in 1..Len(S.layers) : a # b => S.layers[a].id # S.layers[b].id

\* The RouteResult field whose channel owns an identifier.
ChannelOf(id) ==
    CASE id[1] = "route" -> "route_geometry"
      [] id[1] = "congestion" -> "congestion_segments"
      [] id[1] = "samples" -> "samples"
      [] id[1] \in {"toll", "tolls"} -> "toll_points"
      [] id[1] \in {"accident", "accidents"} -> "accident_points"
      [] id[1] \in {"signal", "signals"} -> "traffic_light_points"

FullStackLen == 10 + 2 * MaxSegs

\* C6: on a loaded surface, rebuildLayers run a second time with the same data
\* leaves the sources and the layer stack of the first run, raises nothing, and
\* no identifier occurs twice.
C6_RebuildIdempotent ==
    styleLoaded =>
        LET S1 == rebuildLayers(Here, CurrentRefs)
            S2 == rebuildLayers(S1, CurrentRefs)
        IN  /\ ~S1.thrown /\ ~S1.errors
            /\ ~S2.thrown /\ ~S2.errors
            /\ S2.sources = S1.sources
            /\ S2.layers = S1.layers
            /\ NoDuplicateIds(S2)

C6_Witness ==
    /\ styleLoaded
    /\ lastReady = [styles |-> 2, rebuilds |-> 2]
    /\ Len(layers) = FullStackLen
    /\ Cardinality(sources) = 5 + MaxSegs
    /\ layers = rebuildLayers(Here, CurrentRefs).layers

\* The surface holds the sources and the line and outline layers of the
\* segments 0..m-1 and no other congestion source or layer.
ExactlySegs(S, m) ==
    /\ {id \in SourceIds(S) : id[1] = "congestion"} = {SegSourceId(i) : i \in 0..(m - 1)}
    /\ {id \in LayerIds(S) : id[1] = "congestion"}
          = {SegLineId(i) : i \in 0..(m - 1)} \cup {SegOutlineId(i) : i \in 0..(m - 1)}
    /\ NoDuplicateIds(S)

\* C7: whatever segments a loaded surface holds, rebuilding the congestion
\* channel for m segments leaves exactly the sources, line layers and outline
\* layers of segments 0..m-1; and a loaded surface holds exactly those of the
\* segments MapView was last given.
C7_NoStaleSegments ==
    styleLoaded =>
        /\ ExactlySegs(Here, congestionSegmentsRef.n)
        /\ \A m \in 0..MaxSegs :
              LET S1 == addCongestionLayers(Here,
                            [CurrentRefs EXCEPT !.segs = [n |-> m, gen |-> result.route_id, bad |-> FALSE]])
              IN  ExactlySegs(S1, m) /\ ~S1.thrown /\ ~S1.errors

C7_Witness ==
    /\ styleLoaded
    /\ pendingStyles = 0
    /\ prevSegs = MaxSegs
    /\ congestionSegmentsRef.n = 1
    /\ ExactlySegs(Here, 1)
    /\ [id |-> SegSourceId(0), data |-> congestionSegmentsRef] \in sources

\* The place of a layer in the stack rebuildLayers builds: the route, the
\* congestion, then the samples, tolls, accidents and signals, each channel's
\* circles below its labels.
StackRank(l) ==
    LET f == ChannelOf(l.id)
        c == CASE f = "route_geometry" -> 1
               [] f = "congestion_segments" -> 2
               [] f = "samples" -> 3
               [] f = "toll_points" -> 4
               [] f = "accident_points" -> 5
               [] f = "traffic_light_points" -> 6
    IN  2 * c + (IF l.type = "symbol" THEN 1 ELSE 0)

\* The place of a layer in a stack of route, congestion, circles, labels.
KindRank(l) ==
    IF l.id[1] = "route" THEN 1
    ELSE IF l.id[1] = "congestion" THEN 2
    ELSE IF l.type = "circle" THEN 3
    ELSE 4

\* C8: right after rebuildLayers the stack is, bottom to top, the route, the
\* congestion segments, then the samples, the tolls, the accidents and the
\* signals, each point channel's circles directly below its own labels; no route
\* or congestion layer is above a point or label layer.
C8_StackOrder ==
    styleLoaded =>
        LET lay == rebuildLayers(Here, CurrentRefs).layers
        IN  \A a, b \in 1..Len(lay) : a < b => StackRank(lay[a]) <= StackRank(lay[b])

C8_Witness ==
    /\ styleLoaded
    /\ lastReady = [styles |-> 1, rebuilds |-> 1]
    /\ Len(layers) = FullStackLen
    /\ layers = rebuildLayers(Surface({}, <<>>), CurrentRefs).layers

\* C8 as stated: right after rebuildLayers every circle layer is below every
\* label layer, above the congestion and the route.
C8_CirclesBelowLabels ==
    styleLoaded =>
        LET lay == rebuildLayers(Here, CurrentRefs).layers
        IN  \A a, b \in 1..Len(lay) : a < b => KindRank(lay[a]) <= KindRank(lay[b])

\* The channel of field f is drawn from the data d.
Drawn(f, d) ==
    \E x \in sources : ChannelOf(x.id) = f /\ x.data = d
        /\ \E k \in 1..Len(layers) : layers[k].source = x.id

Count(q, name) == Cardinality({k \in 1..Len(q) : q[k] = name})

\* C9: every style change registers one rebuildLayers that runs once, at the
\* next style-ready: a style-ready runs as many full rebuilds as style changes
\* preceded it (two after two quick changes), none runs earlier, and on a loaded
\* surface every channel MapView has data for is drawn from that data.
C9_RebuildPerStyleChange ==
    /\ lastReady.rebuilds = lastReady.styles
    /\ Count(onceStyledata, "rebuildLayers") = pendingStyles
    /\ styleLoaded <=> pendingStyles = 0
    /\ styleLoaded =>
          \A f \in Fields : Prop(result, f).n > 0 => Drawn(f, Prop(result, f))

C9_Witness ==
    /\ styleLoaded
    /\ lastReady = [styles |-> 2, rebuilds |-> 2]
    /\ result.data = FullPayload
    /\ Len(layers) = FullStackLen
    /\ \A f \in Fields : Drawn(f, Prop(result, f))

\* C10: on a loaded surface a channel without data has no source and no layer,
\* and the map has raised no error.
C10_AbsentChannelRemoved ==
    styleLoaded =>
        /\ \A f \in Fields :
              Prop(result, f).n = 0
                  => /\ \A x \in sources : ChannelOf(x.id) # f
                     /\ \A k \in 1..Len(layers) : ChannelOf(layers[k].id) # f
        /\ ~mapError

\* The layers of the route channel.
RouteLayerIds(S) == {id \in LayerIds(S) : id[1] = "route"}

\* Every source is drawn from the data of result, every layer from a source.
NothingLeftOver ==
    /\ \A x \in sources : x.data = Prop(result, ChannelOf(x.id))
    /\ \A k \in 1..Len(layers) : layers[k].source \in SourceIds(Here)

\* C11: once a completed result with a route geometry and K > 0 congestion
\* segments is applied to a loaded map, whatever the map held before, the
\* surface holds one route layer (the underlay), the K line and K outline layers
\* of segments 0..K-1, and no source or layer that is not drawn from that result.
C11_CompletedApplied ==
    \A j \in JobIds :
        (/\ job[j].outcome = "Completed"
         /\ result.route_id = j
         /\ styleLoaded
         /\ Prop(result, "route_geometry").n > 0
         /\ Prop(result, "congestion_segments").n > 0)
            => /\ RouteLayerIds(Here) = {<<"route", "outline">>}
               /\ ExactlySegs(Here, Prop(result, "congestion_segments").n)
               /\ NothingLeftOver

C11_Witness ==
    /\ styleLoaded
    /\ job[1].outcome = "Completed"
    /\ job[2].outcome = "Completed"
    /\ job[2].fetches = 3
    /\ job[2].nonFinal = 2
    /\ result.route_id = 2
    /\ result.data = Payload(1, 2, {})
    /\ Len(layers) = 5
    /\ Cardinality(sources) = 3

\* C12: no hover popup is on the map while a click popup is on the map.
C12_NoHoverWhileClickOpen == ~(clickPopupRef.onMap /\ hoverPopupRef.onMap)

\* C13: once the click popup is no longer on the map, the pointer entering a
\* sample point shows a hover popup.
C13_HoverReenabled ==
    [][(mouseOver' = "samples" /\ mouseOver # "samples" /\ ~clickPopupRef.onMap)
          => hoverPopupRef'.onMap]_vars

\* ------------------------------------------- the claims: TrafficLightPopup
LightActive == signal # NoSignal /\ visible

\* The phase and the seconds left at elapsed seconds into a signal's cycles.
ExpectedPhase(g, y, r, elapsed) ==
    LET cycle == g + y + r
        pos == elapsed - cycle * (elapsed \div cycle)
    IN  IF pos < g THEN <<"green", g - pos>>
        ELSE IF g <= pos /\ pos < g + y THEN <<"yellow", g + y - pos>>
        ELSE <<"red", cycle - pos>>

\* C14: what the popup shows is the phase and the remaining seconds of
\* pos = elapsed mod cycle: (green, green - pos) if pos < green, (yellow,
\* green + yellow - pos) if green <= pos < green + yellow, else (red, cycle - pos);
\* for (30, 5, 25): 0 -> (green, 30), 30 -> (yellow, 5), 35 -> (red, 25), 60 -> (green, 30).
C14_PhaseComputation ==
    /\ \A t \in intervals :
          t.id = intervalRef =>
              <<phase, countdown>> =
                  ExpectedPhase(t.signal.green_duration, t.signal.yellow_duration,
                                t.signal.red_duration, t.elapsed)
    /\ \A t \in intervals :
          (t.signal = TrafficLightPoint(30, 5, 25) /\ t.id = intervalRef)
              => /\ t.elapsed = 0 => <<phase, countdown>> = <<"green", 30>>
                 /\ t.elapsed = 30 => <<phase, countdown>> = <<"yellow", 5>>
                 /\ t.elapsed = 35 => <<phase, countdown>> = <<"red", 25>>
                 /\ t.elapsed = 60 => <<phase, countdown>> = <<"green", 30>>

C14_Witness ==
    /\ LightActive
    /\ signal = TrafficLightPoint(30, 5, 25)
    /\ \E t \in intervals : t.elapsed = 60 /\ t.id = intervalRef
    /\ <<phase, countdown>> = <<"green", 30>>

C15_Inv ==
    /\ Cardinality(intervals) = (IF LightActive THEN 1 ELSE 0)
    /\ \A t \in intervals : t.id = intervalRef /\ t.signal = signal

C15_Step ==
    (~LightActive /\ ~LightActive') => UNCHANGED <<phase, countdown>>

\* C15: one interval runs while the popup has a signal and is visible, and it
\* is the one started for that signal; none runs otherwise; while the popup
\* stays inactive its phase and countdown do not change.
C15_OneTickDriver == [](C15_Inv) /\ [][C15_Step]_vars

C15_Witness ==
    /\ ~LightActive
    /\ intervals = {}
    /\ intervalRef = 2
    /\ countdown > 0

\* ---------------------------------------------- the claims: navigation
\* The proximity radius of the simulator, in metres.
ProximityRadius == 200

\* The result on screen has traffic lights, and the nearest is within the radius.
SignalWithinRadius(loc) ==
    /\ result.data["traffic_light_points"] > 0
    /\ loc.known
    /\ loc.at <= ProximityRadius

\* C16: after each location update during navigation the simulator is active
\* exactly when the nearest traffic light is within the proximity radius
\* (150 m: active; 250 m: inactive).
C16_ActiveIffWithinRadius ==
    [][(navigationMode /\ userLocation' # userLocation)
            => (LightActive' <=> SignalWithinRadius(userLocation'))]_vars

\* ------------------------------------------ the claims: failed analyses
\* No handleAnalyze call began after call j.
Latest(j) == \A k \in JobIds : k > j => job[k].pc = "idle"

\* What the UI shows once call j has failed with an error of one of kinds.
ShowsError(j, kinds) ==
    /\ error.job = j
    /\ error.kind \in kinds
    /\ result = NoResult
    /\ ~loading

C17_Inv ==
    \A j \in JobIds :
        job[j].last = "rejected"
            => /\ job[j].pc = "done"
               /\ job[j].outcome = "TransportError"
               /\ job[j].reports = 1
               /\ Latest(j) => ShowsError(j, {"transport"})

\* Call j ends in this step by reporting an error of one of kinds, and no result.
EndsWithError(j, kinds) ==
    /\ job'[j].pc = "done"
    /\ job'[j].reports = 1
    /\ job'[j].fetches = job[j].fetches
    /\ error'.job = j
    /\ error'.kind \in kinds
    /\ result' = result
    /\ ~loading'

C17_Step ==
    \A j \in JobIds :
        /\ job[j].last = "rejected" => job'[j] = job[j]
        /\ (job[j].last # "rejected" /\ job'[j].last = "rejected")
              => EndsWithError(j, {"transport"})

\* C17: a rejected poll fetch ends the call at once: no fetch follows it, the
\* call is not retried, and the UI shows the error, no result, and is not loading.
C17_TransportErrorEndsPolling == [](C17_Inv) /\ [][C17_Step]_vars

C17_Witness ==
    /\ job[1].outcome = "Completed"
    /\ job[MaxJobs].outcome = "TransportError"
    /\ job[MaxJobs].fetches = 2
    /\ job[MaxJobs].maxAttempts = MaxAttempts
    /\ ShowsError(MaxJobs, {"transport"})

C18_Inv ==
    \A j \in JobIds :
        /\ job[j].outcome = "SubmitError"
            => /\ job[j].pc = "done"
               /\ job[j].fetches = 0
               /\ job[j].reports = 1
               /\ Latest(j) => ShowsError(j, {"submit"})
        /\ job[j].pc = "submitting" => job[j].fetches = 0

C18_Step ==
    \A j \in JobIds :
        /\ job[j].outcome = "SubmitError" => job'[j] = job[j]
        /\ (job[j].outcome # "SubmitError" /\ job'[j].outcome = "SubmitError")
              => job[j].pc = "submitting" /\ EndsWithError(j, {"submit"})

\* C18: a rejected POST /routes ends the call at once with its error shown:
\* the POST is not repeated, no poll fetch is ever issued for the call, no
\* result is set and loading is false again.
C18_SubmitErrorEndsCall == [](C18_Inv) /\ [][C18_Step]_vars

C18_Witness ==
    /\ job[1].outcome = "Completed"
    /\ job[MaxJobs].outcome = "SubmitError"
    /\ job[MaxJobs].fetches = 0
    /\ ShowsError(MaxJobs, {"submit"})

C19_Inv ==
    \A j \in JobIds :
        job[j].last = "failed"
            => /\ job[j].pc = "done"
               /\ job[j].outcome = "Failed"
               /\ job[j].reports = 1
               /\ Latest(j) => ShowsError(j, {"backend", "fallback"})

C19_Step ==
    \A j \in JobIds :
        /\ job[j].last = "failed" => job'[j] = job[j]
        /\ (job[j].last # "failed" /\ job'[j].last = "failed")
              => EndsWithError(j, {"backend", "fallback"})

\* C19: a call whose fetch is answered 'failed' ends with an error shown (the
\* backend's message, or the fixed fallback text when it sent none), exposes
\* no result, and is neither retried nor polled again.
C19_FailedStatusEndsCall == [](C19_Inv) /\ [][C19_Step]_vars

C19_Witness ==
    /\ job[1].outcome = "Completed"
    /\ job[MaxJobs].outcome = "Failed"
    /\ job[MaxJobs].nonFinal = 1
    /\ ShowsError(MaxJobs, {"fallback"})

\* --------------------------------------- the claims: partial channel updates
\* The place of a layer in a stack of route, congestion, point channels (the
\* circles and labels of the point channels taken together).
BaseRank(l) ==
    IF l.id[1] = "route" THEN 1
    ELSE IF l.id[1] = "congestion" THEN 2
    ELSE 3

HasPointLayers(lay) == \E k \in 1..Len(lay) : BaseRank(lay[k]) = 3

\* C20: a render on a loaded surface that changes the congestion segments or
\* the route geometry leaves, where point layers exist, the route below the
\* congestion segments, and both below every point and label layer.
C20_PartialUpdateKeepsOrder ==
    [][(/\ styleLoaded /\ styleLoaded'
        /\ \/ congestionSegmentsRef' # congestionSegmentsRef
           \/ routeGeomRef' # routeGeomRef
        /\ HasPointLayers(layers'))
            => \A a, b \in 1..Len(layers') :
                    a < b => BaseRank(layers'[a]) <= BaseRank(layers'[b])]_vars

\* ------------------------------------------- the claims: style reentry
C21_Inv == ~styleLoaded => sources = {} /\ layers = <<>>

C21_Step ==
    /\ (~styleLoaded /\ ~styleLoaded') => UNCHANGED <<sources, layers>>
    /\ (~styleLoaded /\ result' # result)
          => onceStyledata' = onceStyledata \o TriggeredEffects(result, result')

\* C21: from a style swap to the next style-ready the surface has no source
\* and no layer and none is added; the effects of a data change that arrives
\* in between are registered for style-ready instead of being run.
C21_NoAddBeforeStyleReady == [](C21_Inv) /\ [][C21_Step]_vars

C21_Witness ==
    /\ ~styleLoaded
    /\ lastReady.styles > 0
    /\ result.data = FullPayload
    /\ Count(onceStyledata, "routeDoIt") = 1
    /\ layers = <<>>

\* The add* functions a once-listener calls.
CallsOf(name) ==
    CASE name = "rebuildLayers" -> RebuildOrder
      [] name = "routeDoIt" -> <<"addRouteLayers", "addCongestionLayers",
                                 "addSampleLayers", "addTrafficLightLayers">>
      [] name = "congestionDoIt" -> <<"addRouteLayers", "addCongestionLayers">>
      [] OTHER -> <<name>>

\* How often the next style-ready calls the add* function fn.
CallsAtReady(fn) ==
    Cardinality({<<k, i>> \in (1..Len(onceStyledata)) \X (1..Len(RebuildOrder)) :
                    /\ i <= Len(CallsOf(onceStyledata[k]))
                    /\ CallsOf(onceStyledata[k])[i] = fn})

\* C22: while the rebuild of one style swap is pending, whatever data arrives,
\* the next style-ready tears down and builds each channel once.
C22_DataRebuildCoalesced ==
    (~styleLoaded /\ lastReady.styles > 0 /\ pendingStyles = 1)
        => \A k \in 1..Len(RebuildOrder) : CallsAtReady(RebuildOrder[k]) = 1

\* ---------------------------------------- the claims: surface consistency
\* C23: the identifiers of the sources and of the layers are unique, every
\* layer has its source, and the map has raised no error: no addSource or
\* addLayer was issued for an identifier in use, no source was removed while a
\* layer used it.
C23_SurfaceConsistent ==
    /\ NoDuplicateIds(Here)
    /\ \A k \in 1..Len(layers) : layers[k].source \in SourceIds(Here)
    /\ ~mapError

C23_Witness ==
    /\ styleLoaded
    /\ Len(layers) = FullStackLen
    /\ prevSegs = MaxSegs
    /\ result.route_id = MaxJobs
    /\ \A x \in sources : x.data.gen = MaxJobs

\* ------------------------------------------- the claims: what App exposes
C24_Inv ==
    /\ \A j \in JobIds :
          (Active(job[j]) /\ Latest(j))
              => result = NoResult /\ error = NoError /\ loading
    /\ result # NoResult
          => /\ result.status = "completed"
             /\ job[result.route_id].returned = Ident(result)

C24_Step ==
    \A j \in JobIds :
        (Active(job[j]) /\ Active(job'[j])) => UNCHANGED <<result, error, loading>>

\* C24: from the start of a call to its end the result and the error stay
\* null and loading stays true, whatever the polls answer; a result is only
\* ever the answer of a fetch whose status is 'completed'.
C24_PollsInvisible == [](C24_Inv) /\ [][C24_Step]_vars

C24_Witness ==
    /\ job[1].outcome = "Completed"
    /\ job[MaxJobs].pc = "sleeping"
    /\ job[MaxJobs].nonFinal = MaxAttempts - 1
    /\ result = NoResult /\ error = NoError /\ loading

\* ------------------------------------------- the claims: the tick driver
\* What the popup shows in the next state is computed from interval t.
Emits(t) ==
    /\ phase' = getPhaseAndRemaining(t.signal, t.elapsed).phase
    /\ countdown' = getPhaseAndRemaining(t.signal, t.elapsed).remaining

C25_Step ==
    /\ \A n \in intervals' :
          IF \E t \in intervals : t.id = n.id
          THEN \E t \in intervals :
                  /\ t.id = n.id
                  /\ n.signal = t.signal
                  /\ \/ n.elapsed = t.elapsed
                     \/ n.elapsed = t.elapsed + 1 /\ Emits(n)
          ELSE /\ n.elapsed \in 0..(totalCycle(n.signal) - 1)
               /\ Emits(n)
    /\ <<phase, countdown>>' # <<phase, countdown>> => intervals' # intervals

\* C25: an activation starts an interval at an offset in [0, cycle), whatever
\* an earlier activation had reached, and shows the phase of that offset; every
\* firing adds exactly 1 to elapsed and shows the phase of the new elapsed;
\* nothing else changes what is shown.
C25_TickDriver == [][C25_Step]_vars

C25_Witness ==
    /\ LightActive
    /\ intervalRef = 2
    /\ \E t \in intervals :
          /\ t.id = intervalRef
          /\ t.elapsed = 2 * totalCycle(t.signal) + 1
          /\ <<phase, countdown>> = <<getPhaseAndRemaining(t.signal, 1).phase,
                                      getPhaseAndRemaining(t.signal, 1).remaining>>

\* The duration of a phase of a signal.
DurationOf(sig, p) ==
    CASE p = "green" -> sig.green_duration
      [] p = "yellow" -> sig.yellow_duration
      [] p = "red" -> sig.red_duration

\* C27: while the popup is active the countdown is an integer from 1 to the
\* duration of the phase shown; it never shows 0, and a phase whose duration
\* is 0 is never shown.
C27_RemainingInRange ==
    LightActive
        => /\ phase \in {"green", "yellow", "red"}
           /\ DurationOf(signal, phase) > 0
           /\ countdown \in 1..DurationOf(signal, phase)

C27_Witness ==
    /\ LightActive
    /\ signal.yellow_duration = 0 /\ signal.green_duration > 0
    /\ phase = "red"
    /\ countdown = signal.red_duration
    /\ \E t \in intervals : t.elapsed > totalCycle(signal)

\* ------------------------------------------- the claims: render defects
\* C26: on a loaded surface, whether or not an element of a channel lacks its
\* coordinates, the map has raised no error and every point channel MapView
\* has data for is drawn.
C26_DefectSkipped ==
    styleLoaded
        => /\ ~mapError
           /\ \A f \in PointFields : Prop(result, f).n > 0 => Drawn(f, Prop(result, f))

\* ------------------------------------------ the claims: error and result
\* C28: however handleAnalyze calls follow or overlap each other, the error
\* and the result App exposes are never both non-null.
C28_ErrorOrResult == ~(error # NoError /\ result # NoResult)

\* ------------------------------------------------ the claims: loading
C29_Inv == loading <=> \E j \in JobIds : Active(job[j])

C29_Step == (loading /\ ~loading') => \A j \in JobIds : job'[j].pc \in {"idle", "done"}

\* C29: loading is true exactly while a call is submitting, fetching or
\* sleeping, and it turns false only in a step after which no call is.
C29_LoadingWhileActive == [](C29_Inv) /\ [][C29_Step]_vars

C29_Witness ==
    /\ ~loading
    /\ job[1].outcome = "TimedOut"
    /\ job[1].fetches = MaxAttempts
    /\ job[MaxJobs].outcome = "Completed"

\* ------------------------------------------- the claims: mobile navigation
\* C30: once navigation mode is off, no location update changes userLocation
\* (the position known since the mount stays as it is).
C30_NoUpdateAfterStop ==
    [][(~navigationMode /\ ~navigationMode' /\ userLocation.known)
            => userLocation' = userLocation]_vars

====
